---------------------------- MODULE Spec2Model ----------------------------
(***************************************************************************)
(* cpp_utils: cpp::default_thread_pool (thread_pool.hpp) and cpp::with_lock *)
(* (parallel.hpp).                                                          *)
(*                                                                          *)
(* Threads.  Worker t (t = 0 .. n-1) runs the lambda of the constructor.   *)
(* Owner is the thread that constructs and destroys the pool; Other is a   *)
(* second client thread.  Both clients call do_task and wait.              *)
(*                                                                          *)
(* Granularity.  Taking main_lock is a step of its own; the code that runs *)
(* under the lock is cut where the source has a branch or a wait; a step   *)
(* that ends a critical section releases the lock in the same step.        *)
(* std::condition_variable is a set of blocked threads: notify_one removes *)
(* one member (any), notify_all removes all, and a member may also leave   *)
(* by itself (a spurious wakeup, which the standard allows).               *)
(*                                                                          *)
(* The pool-based parallel algorithms of parallel.hpp are a second program *)
(* (AlgSpec, at the end of the module): one call of one algorithm on a     *)
(* constructed pool, with each critical section of the pool as one step.   *)
(***************************************************************************)
EXTENDS Integers, Sequences, FiniteSets, Bags, TLC

\* Largest number of worker threads a pool is constructed with.
MaxWorkers == 2
\* Number of tasks that the clients can enqueue in one behaviour.
MaxTasks == 2
\* Number of tasks that the tasks can enqueue on top of them.
MaxNested == 1
\* Largest length of a range given to a parallel algorithm.
MaxLen == 7
\* Largest lower bound given to parallel_foreach_n.
MaxFirst == 2

WorkerIds == 0 .. (MaxWorkers - 1)
Owner == MaxWorkers
Other == MaxWorkers + 1
Clients == {Owner, Other}

VARIABLES
    n,               \* constructor argument: the number of threads
    threads,         \* threads.size(): workers created so far
    status,          \* status[t]: "WAITING" or "WORKING"
    tasks,           \* the queue of tasks (task ids, front first)
    main_lock,       \* {} when free, {thread} when held
    condition,       \* workers blocked in condition.wait
    wait_condition,  \* clients blocked in wait_condition.wait
    stop_flag,
    wpc,             \* position of each worker in its loop
    task,            \* the local `task` of each worker (0: empty function)
    cpc,             \* position of each client
    joined,          \* destructor: threads joined so far
    raised,          \* raised[c]: the last do_task of c threw
    popped,          \* history: task ids in the order they left the queue
    started,         \* history: task ids in the order task() was entered
    finished,        \* history: task ids in the order task() returned
    quiet,           \* history: a wait() returned and no do_task was called since
    queuedAtStop,    \* history: the ids in the queue when stop_flag was set
    alg,             \* the parallel algorithm called ("none": no call)
    ra,              \* the iterator category is random access
    dist,            \* std::distance(first, last), or last - first
    first,           \* parallel_foreach_n: the lower bound of the index range
    apc,             \* position of the caller inside the algorithm
    k,               \* the loop variable of the submitting loop
    part,            \* the local `part`
    rem,             \* the local `rem`
    closures,        \* closures[id]: the functor calls task id makes
    calls,           \* history: bag of the functor calls made so far
    divz,            \* history: a division by zero was evaluated
    futures,         \* the local `futures` of a free-function algorithm
    child            \* history: the pairs <<p, id>>, task p has enqueued task id

vars == <<n, threads, status, tasks, main_lock, condition, wait_condition,
          stop_flag, wpc, task, cpc, joined, raised, popped, started,
          finished, quiet, queuedAtStop, alg, ra, dist, first, apc, k, part,
          rem, closures, calls, divz, futures, child>>

poolVars == <<n, threads, status, tasks, stop_flag, joined>>
histVars == <<popped, started, finished, quiet, queuedAtStop>>
algVars == <<alg, ra, dist, first, apc, k, part, rem, closures, calls, divz,
            futures>>

-----------------------------------------------------------------------------
(* Helpers: the pieces of the source the actions are made of.               *)

\* Number of tasks enqueued so far; ids are given in enqueue order.
Submitted == Len(popped) + Len(tasks)

\* Number of times task id appears in sequence s.
Count(s, id) == Cardinality({i \in 1 .. Len(s) : s[i] = id})

\* std::condition_variable::notify_one: the possible wait sets afterwards.
NotifyOne(ws) == IF ws = {} THEN {ws} ELSE {ws \ {x} : x \in ws}

\* Faulty variant of NotifyDrainWaiter: the worker notifies nobody.
NotifyNobody(ws) == {ws}

\* worker: wait_condition.notify_one().
NotifyDrainWaiter(ws) == NotifyOne(ws)

\* Faulty variant of NotifyAll: only one blocked thread is woken.
NotifyAllWakesOne(ws) == IF ws = {} THEN {} ELSE ws \ {CHOOSE x \in ws : TRUE}

\* std::condition_variable::notify_all.
NotifyAll(ws) == {}

\* Faulty variant of EmplaceBack: the task is put at the front of the queue.
EmplaceFront(q, id) == <<id>> \o q

\* tasks.emplace_back(...)
EmplaceBack(q, id) == Append(q, id)

\* Faulty variant of Front: the worker takes the task at the back of the queue.
Back(q) == q[Len(q)]

\* tasks.front()
Front(q) == Head(q)

\* tasks.pop_front()
PopFront(q) == Tail(q)

\* Faulty variant of NoneWorking: only the first status is examined.
FirstNotWorking == \A t \in DOMAIN status \cap {0} : status[t] # "WORKING"

\* std::find(status.begin(), status.end(), WORKING) == status.end()
NoneWorking == \A t \in DOMAIN status : status[t] # "WORKING"

\* Faulty variant of Drained: wait() returns when no worker is WORKING,
\* whatever the queue holds.
NoWorkerBusy == NoneWorking

\* Faulty variant of Drained: wait() returns as soon as the queue is empty.
QueueEmptyOnly == tasks = <<>>

\* wait(): the condition under which it returns.
Drained == tasks = <<>> /\ NoneWorking

\* wait(): the predicate of wait_condition.wait.
WaitPredicate == tasks = <<>>

\* worker: the predicate of condition.wait.
WorkerPredicate == stop_flag \/ tasks # <<>>

\* Faulty variant of WorkerReturns: the loop returns on stop_flag alone.
ReturnsOnStop == stop_flag

\* worker: the condition under which the loop returns.
WorkerReturns == stop_flag /\ tasks = <<>>

\* Faulty variant of StatusAfterPop: the worker does not mark itself WORKING.
StatusLeftWaiting == "WAITING"

\* worker: the status written after a task was taken.
StatusAfterPop == "WORKING"

\* Faulty variant of DoTaskRejects: stop_flag is not tested.
NeverRejects == FALSE

\* do_task: the condition under which it throws.
DoTaskRejects == stop_flag

\* Faulty variant of JoinReturns: the destructor does not wait for the thread.
JoinReturnsAtOnce(t) == TRUE

\* thread.join() returns once the thread has left its function.
JoinReturns(t) == wpc[t] = "exited"

\* Faulty variant of MoreThreads: the loop runs once more.
OneThreadMore == threads <= n

\* constructor: the loop condition t < n.
MoreThreads == threads < n

\* Faulty variant of InitialStopFlag: the flag starts set.
InitialStopFlagSet == TRUE

\* volatile bool stop_flag = false;
InitialStopFlag == FALSE

\* Faulty variant of WithLock: the functor is called without taking the lock.
WithoutLock(c) == main_lock' = main_lock

\* with_lock(lock, fun): std::unique_lock<Lock> l(lock) blocks until the lock
\* is free and takes it.
WithLock(c) == main_lock = {} /\ main_lock' = {c}

\* Faulty variant of CtorLock: the constructor does not take main_lock.
CtorNoLock == {}

\* constructor: std::unique_lock<std::mutex> ulock(main_lock), taken before
\* the first thread is created; the holder of main_lock afterwards.
CtorLock == {Owner}

\* Faulty variant of StatusSlot: the worker writes the entry of its neighbour.
NeighbourSlot(t) == (t + 1) % n

\* worker: the entry of status it writes, status[t] with t captured by value.
StatusSlot(t) == t

\* Faulty variant of StatusAtTop: the status is left as it was.
StatusKept(t) == status[t]

\* worker: the status written at the top of each iteration.
StatusAtTop(t) == "WAITING"

\* Faulty variant of NotifyWorker: do_task notifies nobody.
NotifyDropped(ws) == {ws}

\* do_task: condition.notify_one().
NotifyWorker(ws) == NotifyOne(ws)

\* size(): threads.size()
Size == threads

\* The pool exists: its constructor has returned, its destructor has not.
PoolAlive == cpc[Owner] \notin {"ctor", "destroyed"}

-----------------------------------------------------------------------------
(* Construction                                                             *)

Init ==
    /\ n \in 0 .. MaxWorkers
    /\ threads = 0
    /\ status = [t \in 0 .. (n - 1) |-> "WAITING"]
    /\ tasks = <<>>
    /\ main_lock = CtorLock
    /\ condition = {}
    /\ wait_condition = {}
    /\ stop_flag = InitialStopFlag
    /\ wpc = [t \in WorkerIds |-> "none"]
    /\ task = [t \in WorkerIds |-> 0]
    /\ cpc = [c \in Clients |-> IF c = Owner THEN "ctor" ELSE "idle"]
    /\ joined = 0
    /\ raised = [c \in Clients |-> FALSE]
    /\ popped = <<>>
    /\ started = <<>>
    /\ finished = <<>>
    /\ quiet = FALSE
    /\ queuedAtStop = {}
    /\ alg = "none"
    /\ ra = FALSE
    /\ dist = 0
    /\ first = 0
    /\ apc = "none"
    /\ k = 0
    /\ part = 0
    /\ rem = 0
    /\ closures = <<>>
    /\ calls = EmptyBag
    /\ divz = FALSE
    /\ futures = <<>>
    /\ child = {}

\* threads.emplace_back(...) for t = threads.size(), under the constructor's lock.
CtorSpawn ==
    /\ cpc[Owner] = "ctor"
    /\ MoreThreads
    /\ wpc' = [wpc EXCEPT ![threads] = "top"]
    /\ threads' = threads + 1
    /\ UNCHANGED <<n, status, tasks, main_lock, condition, wait_condition,
                   stop_flag, task, cpc, joined, raised>>
    /\ UNCHANGED histVars
    /\ UNCHANGED algVars
    /\ UNCHANGED child

\* End of the constructor: ulock is destroyed.
CtorReturn ==
    /\ cpc[Owner] = "ctor"
    /\ ~MoreThreads
    /\ main_lock' = main_lock \ {Owner}
    /\ cpc' = [cpc EXCEPT ![Owner] = "idle"]
    /\ UNCHANGED <<n, threads, status, tasks, condition, wait_condition,
                   stop_flag, wpc, task, joined, raised>>
    /\ UNCHANGED histVars
    /\ UNCHANGED algVars
    /\ UNCHANGED child

-----------------------------------------------------------------------------
(* The worker loop                                                          *)

\* std::unique_lock<std::mutex> ulock(main_lock);
WorkerLock(t) ==
    /\ wpc[t] = "top"
    /\ main_lock = {}
    /\ main_lock' = {t}
    /\ wpc' = [wpc EXCEPT ![t] = "mark"]
    /\ UNCHANGED <<condition, wait_condition, task, cpc, raised>>
    /\ UNCHANGED poolVars
    /\ UNCHANGED histVars
    /\ UNCHANGED algVars
    /\ UNCHANGED child

\* status[t] = WAITING; wait_condition.notify_one();
WorkerMarkWaiting(t) ==
    /\ wpc[t] = "mark"
    /\ status' = [status EXCEPT ![StatusSlot(t)] = StatusAtTop(t)]
    /\ wait_condition' \in NotifyDrainWaiter(wait_condition)
    /\ wpc' = [wpc EXCEPT ![t] = "pred"]
    /\ UNCHANGED <<n, threads, tasks, main_lock, condition, stop_flag, task,
                   cpc, joined, raised>>
    /\ UNCHANGED histVars
    /\ UNCHANGED algVars
    /\ UNCHANGED child

\* condition.wait(ulock, pred): the predicate is tested under the lock; when
\* it is false the lock is released and the thread blocks.
WorkerPred(t) ==
    /\ wpc[t] = "pred"
    /\ IF WorkerPredicate
         THEN /\ wpc' = [wpc EXCEPT ![t] = "decide"]
              /\ UNCHANGED <<main_lock, condition>>
         ELSE /\ wpc' = [wpc EXCEPT ![t] = "cwait"]
              /\ main_lock' = {}
              /\ condition' = condition \cup {t}
    /\ UNCHANGED <<wait_condition, task, cpc, raised>>
    /\ UNCHANGED poolVars
    /\ UNCHANGED histVars
    /\ UNCHANGED algVars
    /\ UNCHANGED child

\* condition.wait: the thread was woken and takes the lock again.
WorkerWake(t) ==
    /\ wpc[t] = "cwait"
    /\ t \notin condition
    /\ main_lock = {}
    /\ main_lock' = {t}
    /\ wpc' = [wpc EXCEPT ![t] = "pred"]
    /\ UNCHANGED <<condition, wait_condition, task, cpc, raised>>
    /\ UNCHANGED poolVars
    /\ UNCHANGED histVars
    /\ UNCHANGED algVars
    /\ UNCHANGED child

\* if (stop_flag && tasks.empty()) return;
WorkerExit(t) ==
    /\ wpc[t] = "decide"
    /\ WorkerReturns
    /\ main_lock' = {}
    /\ wpc' = [wpc EXCEPT ![t] = "exited"]
    /\ UNCHANGED <<condition, wait_condition, task, cpc, raised>>
    /\ UNCHANGED poolVars
    /\ UNCHANGED histVars
    /\ UNCHANGED algVars
    /\ UNCHANGED child

\* task = std::move(tasks.front()); tasks.pop_front(); status[t] = WORKING;
\* and the end of the block releases the lock.
WorkerPop(t) ==
    /\ wpc[t] = "decide"
    /\ ~WorkerReturns
    /\ tasks # <<>>
    /\ task' = [task EXCEPT ![t] = Front(tasks)]
    /\ tasks' = PopFront(tasks)
    /\ status' = [status EXCEPT ![StatusSlot(t)] = StatusAfterPop]
    /\ main_lock' = {}
    /\ wpc' = [wpc EXCEPT ![t] = "call"]
    /\ popped' = Append(popped, Front(tasks))
    /\ UNCHANGED <<n, threads, condition, wait_condition, stop_flag, cpc,
                   joined, raised, started, finished, quiet, queuedAtStop>>
    /\ UNCHANGED algVars
    /\ UNCHANGED child

\* task(): the call is entered.
TaskBegin(t) ==
    /\ wpc[t] = "call"
    /\ wpc' = [wpc EXCEPT ![t] = "intask"]
    /\ started' = Append(started, task[t])
    /\ UNCHANGED <<main_lock, condition, wait_condition, task, cpc, raised,
                   popped, finished, quiet, queuedAtStop>>
    /\ UNCHANGED poolVars
    /\ UNCHANGED algVars
    /\ UNCHANGED child

\* task() returns; the local `task` is destroyed at the end of the iteration.
TaskEnd(t) ==
    /\ wpc[t] = "intask"
    /\ wpc' = [wpc EXCEPT ![t] = "top"]
    /\ finished' = Append(finished, task[t])
    /\ task' = [task EXCEPT ![t] = 0]
    /\ UNCHANGED <<main_lock, condition, wait_condition, cpc, raised, popped,
                   started, quiet, queuedAtStop>>
    /\ UNCHANGED poolVars
    /\ UNCHANGED algVars
    /\ UNCHANGED child

-----------------------------------------------------------------------------
(* do_task                                                                  *)

\* with_lock(main_lock, ...): std::unique_lock<Lock> l(lock);
\* A call is made while the pool exists; once MaxTasks tasks were enqueued
\* only calls that will be rejected are made.
DoTaskLock(c) ==
    /\ cpc[c] = "idle"
    /\ PoolAlive
    /\ Submitted < MaxTasks \/ stop_flag
    /\ WithLock(c)
    /\ cpc' = [cpc EXCEPT ![c] = "dt_body"]
    /\ raised' = [raised EXCEPT ![c] = FALSE]
    /\ quiet' = FALSE
    /\ UNCHANGED <<condition, wait_condition, wpc, task, popped, started,
                   finished, queuedAtStop>>
    /\ UNCHANGED poolVars
    /\ UNCHANGED algVars
    /\ UNCHANGED child

\* The lambda of do_task, then the destructor of l (also when it throws).
DoTaskBody(c) ==
    /\ cpc[c] = "dt_body"
    /\ IF DoTaskRejects
         THEN /\ raised' = [raised EXCEPT ![c] = TRUE]
              /\ cpc' = [cpc EXCEPT ![c] = "idle"]
              /\ tasks' = tasks
         ELSE /\ tasks' = EmplaceBack(tasks, Submitted + 1)
              /\ cpc' = [cpc EXCEPT ![c] = "dt_notify"]
              /\ raised' = raised
    /\ main_lock' = {}
    /\ UNCHANGED <<n, threads, status, condition, wait_condition, stop_flag,
                   wpc, task, joined>>
    /\ UNCHANGED histVars
    /\ UNCHANGED algVars
    /\ UNCHANGED child

\* condition.notify_one();
DoTaskNotify(c) ==
    /\ cpc[c] = "dt_notify"
    /\ condition' \in NotifyWorker(condition)
    /\ cpc' = [cpc EXCEPT ![c] = "idle"]
    /\ UNCHANGED <<main_lock, wait_condition, wpc, task, raised>>
    /\ UNCHANGED poolVars
    /\ UNCHANGED histVars
    /\ UNCHANGED algVars
    /\ UNCHANGED child

-----------------------------------------------------------------------------
(* wait                                                                     *)

\* A client calls wait().
WaitCall(c) ==
    /\ cpc[c] = "idle"
    /\ PoolAlive
    /\ cpc' = [cpc EXCEPT ![c] = "wt_top"]
    /\ UNCHANGED <<main_lock, condition, wait_condition, wpc, task, raised>>
    /\ UNCHANGED poolVars
    /\ UNCHANGED histVars
    /\ UNCHANGED algVars
    /\ UNCHANGED child

\* while (true) { std::unique_lock<std::mutex> ulock(main_lock);
WaitLock(c) ==
    /\ cpc[c] = "wt_top"
    /\ main_lock = {}
    /\ main_lock' = {c}
    /\ cpc' = [cpc EXCEPT ![c] = "wt_check"]
    /\ UNCHANGED <<condition, wait_condition, wpc, task, raised>>
    /\ UNCHANGED poolVars
    /\ UNCHANGED histVars
    /\ UNCHANGED algVars
    /\ UNCHANGED child

\* if (tasks.empty() && no status is WORKING) return;
WaitCheck(c) ==
    /\ cpc[c] = "wt_check"
    /\ IF Drained
         THEN /\ cpc' = [cpc EXCEPT ![c] = "idle"]
              /\ main_lock' = {}
              /\ quiet' = TRUE
         ELSE /\ cpc' = [cpc EXCEPT ![c] = "wt_pred"]
              /\ UNCHANGED <<main_lock, quiet>>
    /\ UNCHANGED <<condition, wait_condition, wpc, task, raised, popped,
                   started, finished, queuedAtStop>>
    /\ UNCHANGED poolVars
    /\ UNCHANGED algVars
    /\ UNCHANGED child

\* wait_condition.wait(ulock, pred): when the predicate holds the call returns
\* at once and the iteration ends (ulock is destroyed); otherwise the lock is
\* released and the thread blocks.
WaitPred(c) ==
    /\ cpc[c] = "wt_pred"
    /\ IF WaitPredicate
         THEN /\ cpc' = [cpc EXCEPT ![c] = "wt_top"]
              /\ wait_condition' = wait_condition
         ELSE /\ cpc' = [cpc EXCEPT ![c] = "wt_cwait"]
              /\ wait_condition' = wait_condition \cup {c}
    /\ main_lock' = {}
    /\ UNCHANGED <<condition, wpc, task, raised>>
    /\ UNCHANGED poolVars
    /\ UNCHANGED histVars
    /\ UNCHANGED algVars
    /\ UNCHANGED child

\* wait_condition.wait: the thread was woken and takes the lock again.
WaitWake(c) ==
    /\ cpc[c] = "wt_cwait"
    /\ c \notin wait_condition
    /\ main_lock = {}
    /\ main_lock' = {c}
    /\ cpc' = [cpc EXCEPT ![c] = "wt_pred"]
    /\ UNCHANGED <<condition, wait_condition, wpc, task, raised>>
    /\ UNCHANGED poolVars
    /\ UNCHANGED histVars
    /\ UNCHANGED algVars
    /\ UNCHANGED child

-----------------------------------------------------------------------------
(* Destruction                                                              *)

\* with_lock(main_lock, ...): std::unique_lock<Lock> l(lock);
DtorLock ==
    /\ cpc[Owner] = "idle"
    /\ WithLock(Owner)
    /\ cpc' = [cpc EXCEPT ![Owner] = "dtor_set"]
    /\ UNCHANGED <<condition, wait_condition, wpc, task, raised>>
    /\ UNCHANGED poolVars
    /\ UNCHANGED histVars
    /\ UNCHANGED algVars
    /\ UNCHANGED child

\* stop_flag = true; and the destructor of l.
DtorSet ==
    /\ cpc[Owner] = "dtor_set"
    /\ stop_flag' = TRUE
    /\ main_lock' = {}
    /\ cpc' = [cpc EXCEPT ![Owner] = "dtor_notify"]
    /\ queuedAtStop' = {tasks[i] : i \in 1 .. Len(tasks)}
    /\ UNCHANGED <<n, threads, status, tasks, condition, wait_condition, wpc,
                   task, joined, raised, popped, started, finished, quiet>>
    /\ UNCHANGED algVars
    /\ UNCHANGED child

\* condition.notify_all();
DtorNotifyAll ==
    /\ cpc[Owner] = "dtor_notify"
    /\ condition' = NotifyAll(condition)
    /\ cpc' = [cpc EXCEPT ![Owner] = "dtor_join"]
    /\ UNCHANGED <<main_lock, wait_condition, wpc, task, raised>>
    /\ UNCHANGED poolVars
    /\ UNCHANGED histVars
    /\ UNCHANGED algVars
    /\ UNCHANGED child

\* thread.join() for the next thread of `threads`: returns once it has exited.
DtorJoin ==
    /\ cpc[Owner] = "dtor_join"
    /\ joined < threads
    /\ JoinReturns(joined)
    /\ joined' = joined + 1
    /\ UNCHANGED <<n, threads, status, tasks, stop_flag, main_lock, condition,
                   wait_condition, wpc, task, cpc, raised>>
    /\ UNCHANGED histVars
    /\ UNCHANGED algVars
    /\ UNCHANGED child

\* The destructor returns.  The pool must outlive every call made on it, so
\* the program lets it end only when no other client is inside a call.
DtorReturn ==
    /\ cpc[Owner] = "dtor_join"
    /\ joined = threads
    /\ \A c \in Clients \ {Owner} : cpc[c] = "idle"
    /\ cpc' = [cpc EXCEPT ![Owner] = "destroyed"]
    /\ UNCHANGED <<main_lock, condition, wait_condition, wpc, task, raised>>
    /\ UNCHANGED poolVars
    /\ UNCHANGED histVars
    /\ UNCHANGED algVars
    /\ UNCHANGED child

-----------------------------------------------------------------------------
(* Spurious wakeups of the two condition variables                          *)

SpuriousWorkerWakeup(t) ==
    /\ t \in condition
    /\ condition' = condition \ {t}
    /\ UNCHANGED <<main_lock, wait_condition, wpc, task, cpc, raised>>
    /\ UNCHANGED poolVars
    /\ UNCHANGED histVars
    /\ UNCHANGED algVars
    /\ UNCHANGED child

SpuriousWaiterWakeup(c) ==
    /\ c \in wait_condition
    /\ wait_condition' = wait_condition \ {c}
    /\ UNCHANGED <<main_lock, condition, wpc, task, cpc, raised>>
    /\ UNCHANGED poolVars
    /\ UNCHANGED histVars
    /\ UNCHANGED algVars
    /\ UNCHANGED child

-----------------------------------------------------------------------------

\* The steps of worker t.
Worker(t) ==
    \/ WorkerLock(t)
    \/ WorkerMarkWaiting(t)
    \/ WorkerPred(t)
    \/ WorkerWake(t)
    \/ WorkerExit(t)
    \/ WorkerPop(t)
    \/ TaskBegin(t)
    \/ TaskEnd(t)

\* The steps of client c inside a call.
InCall(c) ==
    \/ DoTaskBody(c)
    \/ DoTaskNotify(c)
    \/ WaitLock(c)
    \/ WaitCheck(c)
    \/ WaitPred(c)
    \/ WaitWake(c)

\* Every step but the calls of wait().
Steps ==
    \/ CtorSpawn
    \/ CtorReturn
    \/ \E t \in WorkerIds : Worker(t)
    \/ \E t \in WorkerIds : SpuriousWorkerWakeup(t)
    \/ \E c \in Clients : DoTaskLock(c)
    \/ \E c \in Clients : InCall(c)
    \/ \E c \in Clients : SpuriousWaiterWakeup(c)
    \/ DtorLock
    \/ DtorSet
    \/ DtorNotifyAll
    \/ DtorJoin
    \/ DtorReturn

Next == Steps \/ \E c \in Clients : WaitCall(c)

\* The program in which only Owner calls wait().
SoloNext == Steps \/ WaitCall(Owner)

\* Scheduling.  A thread that can take a step eventually takes it; a thread
\* that asks for main_lock gets it if the lock is free again and again (the
\* lock is not handed over forever between the other threads).  No call of
\* do_task, wait or the destructor has to be made, and no wakeup has to be
\* spurious.
Fairness ==
    /\ WF_vars(CtorSpawn \/ CtorReturn)
    /\ WF_vars(DtorSet \/ DtorNotifyAll \/ DtorJoin \/ DtorReturn)
    /\ \A t \in WorkerIds :
        /\ WF_vars(WorkerMarkWaiting(t) \/ WorkerPred(t) \/ WorkerExit(t)
                     \/ WorkerPop(t) \/ TaskBegin(t) \/ TaskEnd(t))
        /\ SF_vars(WorkerLock(t) \/ WorkerWake(t))
    /\ \A c \in Clients :
        /\ WF_vars(DoTaskBody(c) \/ DoTaskNotify(c) \/ WaitCheck(c) \/ WaitPred(c))
        /\ SF_vars(WaitLock(c) \/ WaitWake(c))

Spec == Init /\ [][Next]_vars

FairSpec == Init /\ [][Next]_vars /\ Fairness

SoloFairSpec == Init /\ [][SoloNext]_vars /\ Fairness

-----------------------------------------------------------------------------
(* Properties                                                               *)

\* The step in which wait() called by c returns.
WaitReturns(c) == cpc[c] = "wt_check" /\ cpc'[c] = "idle"

\* The positions at which a worker holds a task it took from the queue.
Executing(t) == wpc[t] \in {"call", "intask"}

\* Every task enqueued so far has run to completion exactly once, and nothing
\* else has run.
AllRunOnce ==
    /\ Len(finished) = Submitted
    /\ \A id \in 1 .. Submitted : Count(finished, id) = 1

\* C1: whenever wait() returns, at its last check (made under main_lock) the
\* queue was empty and no worker had status WORKING.
C1_WaitReturnsDrained ==
    [][\A c \in Clients :
          WaitReturns(c) =>
            /\ main_lock = {c}
            /\ tasks = <<>>
            /\ \A t \in DOMAIN status : status[t] # "WORKING"]_vars

\* C1 witness: a wait() has returned after a task was run.
C1_Witness == quiet /\ Len(finished) >= 1

\* C2: when wait() returns, every task enqueued before it has been executed
\* exactly once: none twice, none omitted.
C2_AllTasksOnceAtReturn ==
    [][\A c \in Clients : WaitReturns(c) => AllRunOnce]_vars

\* C2 witness: a wait() has returned after MaxTasks tasks were run by a pool
\* of two workers or more.
C2_Witness == quiet /\ n >= 2 /\ Submitted = MaxTasks /\ Len(finished) = MaxTasks

\* C3: after wait() has returned and as long as no do_task call is made, no
\* worker holds or runs a task, the number of completed tasks is the number
\* enqueued, and no task is started or completed.
C3_DrainComplete ==
    /\ [](quiet =>
            /\ tasks = <<>>
            /\ \A t \in WorkerIds : ~Executing(t) /\ task[t] = 0
            /\ Len(finished) = Submitted)
    /\ [][quiet /\ quiet' =>
            /\ started' = started
            /\ finished' = finished
            /\ popped' = popped]_vars

\* C3 witness: a wait() has returned, tasks were run, and the pool is still
\* in use (a worker is about to take the lock again).
C3_Witness ==
    /\ quiet
    /\ Len(finished) >= 1
    /\ ~stop_flag
    /\ \E t \in WorkerIds : wpc[t] \in {"top", "mark", "pred"}

\* c is inside wait().
InWait(c) == cpc[c] \in {"wt_top", "wt_check", "wt_pred", "wt_cwait"}

\* C4: in a pool with at least one worker, where only one thread calls
\* wait(), every call of wait() returns; so does each later call.
C4_SoloWaitReturns == (InWait(Owner) /\ n >= 1) ~> ~InWait(Owner)

\* C4 witness: the only caller has returned from wait() after MaxTasks tasks
\* were run, and the pool is still in use.
C4_Witness ==
    /\ quiet
    /\ n >= 1
    /\ cpc[Owner] = "idle"
    /\ Len(finished) = MaxTasks
    /\ ~stop_flag

\* The pool has come to rest: the queue is empty, no worker is WORKING, every
\* worker is blocked in condition.wait, and no client is in a call other than
\* blocked in wait_condition.wait.
AtRest ==
    /\ threads = n
    /\ Drained
    /\ \A t \in 0 .. (n - 1) : wpc[t] = "cwait" /\ t \in condition
    /\ \A c \in Clients :
        cpc[c] = "idle" \/ (cpc[c] = "wt_cwait" /\ c \in wait_condition)

\* C5: with at least one worker, once the queue is empty and no worker is
\* WORKING no caller of wait() is left blocked on wait_condition: when the
\* pool has come to rest every concurrent caller has been woken.
C5_NoWaiterLeftBlocked == (n >= 1 /\ AtRest) => wait_condition = {}

\* C6: tasks leave the queue in the order in which do_task appended them
\* (ids are given in enqueue order).
C6_FifoDequeue == \A i \in 1 .. Len(popped) : popped[i] = i

\* C6 witness: two workers hold the two tasks they took.
C6_Witness ==
    /\ Len(popped) >= 2
    /\ \E t, u \in WorkerIds : t # u /\ Executing(t) /\ Executing(u)

\* C7: with exactly one worker, tasks start and complete in enqueue order,
\* and a task starts only after the one before it has finished.
C7_SingleWorkerOrder ==
    n = 1 =>
        /\ \A i \in 1 .. Len(started) : started[i] = i
        /\ \A i \in 1 .. Len(finished) : finished[i] = i
        /\ Len(started) <= Len(finished) + 1

\* C7 witness: a pool of one worker has completed two tasks.
C7_Witness == n = 1 /\ Len(finished) >= 2

\* C8: a do_task that finds stop_flag set signals the error and has no other
\* effect: queue and statuses unchanged, main_lock released, nobody notified.
C8_RejectedDoTaskHasNoEffect ==
    [][\A c \in Clients :
          (cpc[c] = "dt_body" /\ stop_flag /\ cpc'[c] # cpc[c]) =>
            /\ raised'[c]
            /\ cpc'[c] = "idle"
            /\ tasks' = tasks
            /\ status' = status
            /\ stop_flag' = stop_flag
            /\ main_lock' = {}
            /\ condition' = condition
            /\ wait_condition' = wait_condition
            /\ wpc' = wpc]_vars

\* C8 witness: a do_task was rejected while the destructor was waiting for a
\* worker that was running a task.
C8_Witness ==
    /\ \E c \in Clients : raised[c] /\ cpc[c] = "idle"
    /\ cpc[Owner] = "dtor_join"
    /\ \E t \in WorkerIds : wpc[t] = "intask"

\* C9: for a pool with at least one worker, when the destructor has returned
\* every worker has left its loop, the queue is empty and every task enqueued
\* has been run to completion.
C9_DtorDrains ==
    (cpc[Owner] = "destroyed" /\ n >= 1) =>
        /\ \A t \in 0 .. (n - 1) : wpc[t] = "exited"
        /\ tasks = <<>>
        /\ AllRunOnce

\* C9 witness: a pool of two workers was destroyed after MaxTasks tasks.
C9_Witness == cpc[Owner] = "destroyed" /\ n >= 2 /\ Submitted = MaxTasks

\* C10 (as stated): a task still in the queue when the destructor sets
\* stop_flag is never executed.
C10_QueuedAtStopNeverRun ==
    \A id \in queuedAtStop : \A i \in 1 .. Len(started) : started[i] # id

\* C10 (amended): for a pool with at least one worker, every task still in
\* the queue when the destructor sets stop_flag has been run to completion,
\* once, when the destructor returns.
C10_QueuedAtStopAreRun ==
    (cpc[Owner] = "destroyed" /\ n >= 1) =>
        \A id \in queuedAtStop : Count(finished, id) = 1

\* C10 witness: a pool was destroyed with tasks in its queue at the stop.
C10_Witness == cpc[Owner] = "destroyed" /\ n >= 1 /\ queuedAtStop # {}

\* C11: the destructor completes: once stop_flag is set every worker leaves
\* its loop and every join returns, whatever the workers were doing when the
\* flag was set (every task terminates, scheduling is fair).
C11_DtorCompletes ==
    stop_flag ~> (joined = threads /\ \A t \in 0 .. (n - 1) : wpc[t] = "exited")

\* C11 witness: every join has returned in a pool of two workers or more
\* whose queue was not empty when the flag was set.
C11_Witness ==
    /\ cpc[Owner] = "dtor_join"
    /\ n >= 2
    /\ joined = threads
    /\ queuedAtStop # {}
    /\ Len(popped) = MaxTasks

-----------------------------------------------------------------------------
(* The pool-based parallel algorithms (parallel.hpp, "Thread pool versions") *)
(*                                                                          *)
(* One call of one algorithm by Owner on a constructed pool of n threads.  *)
(* A range is its length dist; its elements are their positions 0 ..       *)
(* dist-1.  A functor call is the record of what fun receives: e, the      *)
(* position of the element (or iterator) of the first range; s, the        *)
(* position of the element of the second range; i, the index; None for an  *)
(* argument the algorithm does not pass.  Every do_task is one step        *)
(* (do_task's critical section), a worker takes a task in one step (the    *)
(* critical section of its loop) and runs it in another; the histories     *)
(* started and finished are not kept here.                                 *)

None == 0 - 1

Algs == {"parallel_foreach", "parallel_foreach_i", "parallel_foreach_it",
         "parallel_foreach_i_only", "parallel_foreach_n",
         "parallel_foreach_pair_i"}

\* Faulty variant of RandomAccess: the iterator category is not examined.
AnyCategory == TRUE

\* std::is_same<iterator_category, std::random_access_iterator_tag>::value
RandomAccess == ra

\* The function whose body runs: parallel_foreach_i_only hands a random
\* access range to parallel_foreach_n(thread_pool, 0, distance, fun).
Body ==
    IF alg = "parallel_foreach_i_only" /\ RandomAccess
      THEN "parallel_foreach_n"
      ELSE alg

\* The lower bound the running body sees.
BodyFirst == IF alg = "parallel_foreach_n" THEN first ELSE 0

\* The body computes n / thread_pool.size().
Divides == Body = "parallel_foreach_n" \/ RandomAccess

\* The body tests part < 2; parallel_foreach_pair_i does not.
HasSmallPath == Body # "parallel_foreach_pair_i"

\* Faulty variant of SecondPos: the second range is one step ahead.
SecondPosAhead(p) == p + 1

\* parallel_foreach_pair_i: the position read in the second range when the
\* first range is read at position p (std::next(s_first, i), ++s_first).
SecondPos(p) == p

\* What fun receives for position p of the range and index idx.
FunCall(p, idx) ==
    CASE Body \in {"parallel_foreach", "parallel_foreach_it"} ->
           [e |-> p, s |-> None, i |-> None]
      [] Body = "parallel_foreach_i" ->
           [e |-> p, s |-> None, i |-> idx]
      [] Body \in {"parallel_foreach_n", "parallel_foreach_i_only"} ->
           [e |-> None, s |-> None, i |-> idx]
      [] Body = "parallel_foreach_pair_i" ->
           [e |-> p, s |-> SecondPos(p), i |-> idx]

\* The index the per-element loop passes at its kk-th iteration.
EachIndex(kk) == IF Body = "parallel_foreach_n" THEN BodyFirst + kk ELSE kk

\* Faulty variant of BatchEnd: the batch includes the element after its end.
BatchEndInclusive(t) == (t + 1) * part + 1

\* The bounds do_task binds to the t-th batch: t * part and (t + 1) * part.
\* parallel_foreach_n passes them as indices, the others add them to first.
BatchBegin(t) == t * part
BatchEnd(t) == (t + 1) * part

\* Faulty variant of BatchCalls: the batch walks its range from the end.
BatchCallsBackwards(b, e, istart) ==
    [j \in 1 .. (e - b) |-> FunCall(e - j, istart + (e - b) - j)]

\* batch_functor(b, e[, i_start]): the calls its loop makes, in order.
BatchCalls(b, e, istart) ==
    [j \in 1 .. (e - b) |-> FunCall(b + j - 1, istart + j - 1)]

\* last - rem: the position of the first remainder element.
RemStart == dist - rem

\* Faulty variant of RemIndexStart: the remainder indices restart at the
\* lower bound.
RemIndexRestarts == BodyFirst

\* std::size_t i = n - rem (parallel_foreach_n: i = last - rem).
RemIndexStart == (BodyFirst + dist) - rem

\* The index the remainder loop passes for position kk.
RemIndex(kk) == RemIndexStart + (kk - RemStart)

\* Faulty variant of AfterLastSubmission: the algorithm returns without wait().
ReturnsWithoutWait == "returned"

\* thread_pool.wait(): where the caller goes after its last do_task.
AfterLastSubmission == "wait"

\* The tasks of a sequence as a bag.
SeqBag(sq) == [x \in {sq[j] : j \in DOMAIN sq} |-> Count(sq, x)]

\* thread_pool.do_task(...): the closure is put in the queue.
Submit(kind, inv) ==
    /\ tasks' = EmplaceBack(tasks, Submitted + 1)
    /\ closures' = Append(closures, [kind |-> kind, inv |-> inv])

AlgInit ==
    /\ n \in 0 .. MaxWorkers
    /\ threads = n
    /\ status = [t \in 0 .. (n - 1) |-> "WAITING"]
    /\ tasks = <<>>
    /\ main_lock = {}
    /\ condition = {}
    /\ wait_condition = {}
    /\ stop_flag = FALSE
    /\ wpc = [t \in WorkerIds |-> "none"]
    /\ task = [t \in WorkerIds |-> 0]
    /\ cpc = [c \in Clients |-> "idle"]
    /\ joined = 0
    /\ raised = [c \in Clients |-> FALSE]
    /\ popped = <<>>
    /\ started = <<>>
    /\ finished = <<>>
    /\ quiet = FALSE
    /\ queuedAtStop = {}
    /\ alg \in Algs
    /\ ra \in IF alg = "parallel_foreach_n" THEN {TRUE} ELSE BOOLEAN
    /\ dist \in 0 .. MaxLen
    /\ first \in IF alg = "parallel_foreach_n" THEN 0 .. MaxFirst ELSE {0}
    /\ apc = "start"
    /\ k = 0
    /\ part = 0
    /\ rem = 0
    /\ closures = <<>>
    /\ calls = EmptyBag
    /\ divz = FALSE
    /\ futures = <<>>
    /\ child = {}

algFrame == <<n, threads, main_lock, condition, wait_condition, stop_flag,
              wpc, cpc, joined, raised, started, finished, quiet,
              queuedAtStop, alg, ra, dist, first, futures, child>>

\* A body without division: the per-element loop starts.
AlgEnter ==
    /\ apc = "start"
    /\ ~Divides
    /\ apc' = "each"
    /\ UNCHANGED <<status, tasks, task, popped, k, part, rem, closures, calls,
                   divz>>
    /\ UNCHANGED algFrame

\* auto part = n / thread_pool.size(); if (part < 2) ... else ...
AlgDivide ==
    /\ apc = "start"
    /\ Divides
    /\ n > 0
    /\ part' = dist \div n
    /\ apc' = IF HasSmallPath /\ part' < 2 THEN "each" ELSE "batch"
    /\ UNCHANGED <<status, tasks, task, popped, k, rem, closures, calls, divz>>
    /\ UNCHANGED algFrame

\* The same with thread_pool.size() == 0: the division is undefined; the
\* call ends there (a trap) or goes on with some quotient.
AlgDivideByZero ==
    /\ apc = "start"
    /\ Divides
    /\ n = 0
    /\ divz' = TRUE
    /\ \/ apc' = "trapped" /\ part' = part
       \/ /\ part' \in 0 .. dist
          /\ apc' = IF HasSmallPath /\ part' < 2 THEN "each" ELSE "batch"
    /\ UNCHANGED <<status, tasks, task, popped, k, rem, closures, calls>>
    /\ UNCHANGED algFrame

\* The per-element loop: thread_pool.do_task(fun, <element>[, i]).
AlgEach ==
    /\ apc = "each"
    /\ IF k < dist
         THEN /\ Submit("single", <<FunCall(k, EachIndex(k))>>)
              /\ k' = k + 1
              /\ apc' = apc
         ELSE /\ apc' = AfterLastSubmission
              /\ UNCHANGED <<tasks, closures, k>>
    /\ UNCHANGED <<status, task, popped, part, rem, calls, divz>>
    /\ UNCHANGED algFrame

\* for (t = 0; t < thread_pool.size(); ++t) do_task(batch_functor, ...);
AlgBatch ==
    /\ apc = "batch"
    /\ k < n
    /\ Submit("batch", BatchCalls(BatchBegin(k), BatchEnd(k), BatchBegin(k)))
    /\ k' = k + 1
    /\ UNCHANGED <<status, task, popped, apc, part, rem, calls, divz>>
    /\ UNCHANGED algFrame

\* auto rem = n % thread_pool.size(); if (rem > 0) ...
AlgRemainder ==
    /\ apc = "batch"
    /\ k >= n
    /\ IF n > 0 THEN rem' = dist % n ELSE rem' \in 0 .. dist
    /\ k' = dist - rem'
    /\ apc' = IF rem' > 0 THEN "rem" ELSE AfterLastSubmission
    /\ UNCHANGED <<status, tasks, task, popped, part, closures, calls, divz>>
    /\ UNCHANGED algFrame

\* The remainder loop: thread_pool.do_task(fun, <element>[, i]).
AlgRem ==
    /\ apc = "rem"
    /\ IF k < dist
         THEN /\ Submit("single", <<FunCall(k, RemIndex(k))>>)
              /\ k' = k + 1
              /\ apc' = apc
         ELSE /\ apc' = AfterLastSubmission
              /\ UNCHANGED <<tasks, closures, k>>
    /\ UNCHANGED <<status, task, popped, part, rem, calls, divz>>
    /\ UNCHANGED algFrame

\* thread_pool.wait() returns: the queue is empty and no worker is WORKING.
AlgWait ==
    /\ apc = "wait"
    /\ Drained
    /\ apc' = "returned"
    /\ UNCHANGED <<status, tasks, task, popped, k, part, rem, closures, calls,
                   divz>>
    /\ UNCHANGED algFrame

\* Worker t takes the front task (critical section of the worker loop).
PoolTake(t) ==
    /\ t < n
    /\ task[t] = 0
    /\ tasks # <<>>
    /\ task' = [task EXCEPT ![t] = Front(tasks)]
    /\ tasks' = PopFront(tasks)
    /\ status' = [status EXCEPT ![t] = StatusAfterPop]
    /\ popped' = Append(popped, Front(tasks))
    /\ UNCHANGED <<apc, k, part, rem, closures, calls, divz>>
    /\ UNCHANGED algFrame

\* Worker t runs its task, then marks itself WAITING.
PoolRun(t) ==
    /\ t < n
    /\ task[t] # 0
    /\ calls' = calls (+) SeqBag(closures[task[t]].inv)
    /\ task' = [task EXCEPT ![t] = 0]
    /\ status' = [status EXCEPT ![t] = "WAITING"]
    /\ UNCHANGED <<tasks, popped, apc, k, part, rem, closures, divz>>
    /\ UNCHANGED algFrame

AlgNext ==
    \/ AlgEnter
    \/ AlgDivide
    \/ AlgDivideByZero
    \/ AlgEach
    \/ AlgBatch
    \/ AlgRemainder
    \/ AlgRem
    \/ AlgWait
    \/ \E t \in WorkerIds : PoolTake(t)
    \/ \E t \in WorkerIds : PoolRun(t)

AlgSpec == AlgInit /\ [][AlgNext]_vars

-----------------------------------------------------------------------------
(* The free-function parallel algorithms (parallel.hpp, "Normal versions")  *)
(*                                                                          *)
(* One call of one algorithm.  No pool is involved: every element gets its  *)
(* own std::async(std::launch::async, ...) unit, whose std::future is kept  *)
(* in the local vector `futures`.  futures[j].done: the unit has run to its *)
(* end; futures[j].alive: the future has not been destroyed.  closures[j]   *)
(* is the call unit j makes.                                                *)

FreeAlgs == {"parallel_foreach", "parallel_foreach_i", "parallel_foreach_it",
             "parallel_foreach_n", "parallel_foreach_i_only"}

\* Faulty variant of FuturesSize: the size is read after the push_back.
FuturesSizeAfterPush == Len(futures) + 1

\* futures.size(), an argument of std::async: read before push_back runs.
FuturesSize == Len(futures)

\* What std::async is given at iteration kk of the loop.
AsyncCall(kk) ==
    CASE alg \in {"parallel_foreach", "parallel_foreach_it"} ->
           [e |-> kk, s |-> None, i |-> None]
      [] alg = "parallel_foreach_i" ->
           [e |-> kk, s |-> None, i |-> FuturesSize]
      [] alg = "parallel_foreach_n" ->
           [e |-> None, s |-> None, i |-> first + kk]
      [] alg = "parallel_foreach_i_only" ->
           [e |-> None, s |-> None, i |-> FuturesSize]

\* Faulty variant of FutureJoins: the destructor of a future does not block.
FutureDetached(j) == TRUE

\* ~future() of a future made by std::async with std::launch::async blocks
\* until the unit has completed.
FutureJoins(j) == futures[j].done

AsyncInit ==
    /\ n = 0
    /\ threads = 0
    /\ status = [t \in 0 .. (n - 1) |-> "WAITING"]
    /\ tasks = <<>>
    /\ main_lock = {}
    /\ condition = {}
    /\ wait_condition = {}
    /\ stop_flag = FALSE
    /\ wpc = [t \in WorkerIds |-> "none"]
    /\ task = [t \in WorkerIds |-> 0]
    /\ cpc = [c \in Clients |-> "idle"]
    /\ joined = 0
    /\ raised = [c \in Clients |-> FALSE]
    /\ popped = <<>>
    /\ started = <<>>
    /\ finished = <<>>
    /\ quiet = FALSE
    /\ queuedAtStop = {}
    /\ alg \in FreeAlgs
    /\ ra = FALSE
    /\ dist \in 0 .. MaxLen
    /\ first \in IF alg = "parallel_foreach_n" THEN 0 .. MaxFirst ELSE {0}
    /\ apc = "async_loop"
    /\ k = 0
    /\ part = 0
    /\ rem = 0
    /\ closures = <<>>
    /\ calls = EmptyBag
    /\ divz = FALSE
    /\ futures = <<>>
    /\ child = {}

asyncFrame == <<n, threads, status, tasks, main_lock, condition,
                wait_condition, stop_flag, wpc, task, cpc, joined, raised,
                popped, started, finished, quiet, queuedAtStop, alg, ra, dist,
                first, part, rem, divz, child>>

\* futures.push_back(std::move(std::async(std::launch::async, fun, ...)));
AsyncLaunch ==
    /\ apc = "async_loop"
    /\ k < dist
    /\ closures' = Append(closures, [kind |-> "single", inv |-> <<AsyncCall(k)>>])
    /\ futures' = Append(futures, [done |-> FALSE, alive |-> TRUE])
    /\ k' = k + 1
    /\ UNCHANGED <<apc, calls>>
    /\ UNCHANGED asyncFrame

\* The loop ends; the function ends and `futures` is destroyed.
AsyncLoopEnd ==
    /\ apc = "async_loop"
    /\ k >= dist
    /\ apc' = "async_join"
    /\ UNCHANGED <<k, closures, calls, futures>>
    /\ UNCHANGED asyncFrame

\* Unit j runs fun on its own thread.
AsyncRun(j) ==
    /\ j \in DOMAIN futures
    /\ ~futures[j].done
    /\ calls' = calls (+) SeqBag(closures[j].inv)
    /\ futures' = [futures EXCEPT ![j].done = TRUE]
    /\ UNCHANGED <<apc, k, closures>>
    /\ UNCHANGED asyncFrame

\* ~vector(): the destructor of one element of `futures` (in any order).
AsyncDestroy(j) ==
    /\ apc = "async_join"
    /\ j \in DOMAIN futures
    /\ futures[j].alive
    /\ FutureJoins(j)
    /\ futures' = [futures EXCEPT ![j].alive = FALSE]
    /\ UNCHANGED <<apc, k, closures, calls>>
    /\ UNCHANGED asyncFrame

\* Every element is destroyed: the call returns.
AsyncReturn ==
    /\ apc = "async_join"
    /\ \A j \in DOMAIN futures : ~futures[j].alive
    /\ apc' = "returned"
    /\ UNCHANGED <<k, closures, calls, futures>>
    /\ UNCHANGED asyncFrame

AsyncNext ==
    \/ AsyncLaunch
    \/ AsyncLoopEnd
    \/ \E j \in 1 .. MaxLen : AsyncRun(j)
    \/ \E j \in 1 .. MaxLen : AsyncDestroy(j)
    \/ AsyncReturn

AsyncSpec == AsyncInit /\ [][AsyncNext]_vars

-----------------------------------------------------------------------------
(* The sequential mode of maybe_parallel.hpp (thread_pool<false>)           *)

\* The algorithms that have a maybe_parallel_ form.
MaybeAlgs == {"parallel_foreach", "parallel_foreach_i",
              "parallel_foreach_pair_i", "parallel_foreach_n"}

\* The call the sequential loop makes at its p-th iteration: foreach,
\* foreach_i and foreach_n of algorithm.hpp, and the loop of
\* maybe_parallel_foreach_pair_i.
SequentialCall(p) ==
    CASE alg = "parallel_foreach" ->
           [e |-> p, s |-> None, i |-> None]
      [] alg = "parallel_foreach_i" ->
           [e |-> p, s |-> None, i |-> p]
      [] alg = "parallel_foreach_pair_i" ->
           [e |-> p, s |-> p, i |-> p]
      [] alg = "parallel_foreach_n" ->
           [e |-> None, s |-> None, i |-> first + p]

RECURSIVE SequentialLoop(_)
\* The calls the sequential loop makes from its p-th iteration on, in order.
SequentialLoop(p) ==
    IF p >= dist THEN <<>> ELSE <<SequentialCall(p)>> \o SequentialLoop(p + 1)

\* maybe_parallel_...(thread_pool<false>&, ...): the calls made, in order.
SequentialCalls == SequentialLoop(0)

-----------------------------------------------------------------------------
(* Properties of the parallel algorithms                                    *)

RECURSIVE Flatten(_)
\* The calls of a sequence of closures, in order.
Flatten(cs) == IF cs = <<>> THEN <<>> ELSE Head(cs).inv \o Flatten(Tail(cs))

\* The call the algorithm is to make for position p of its input.
Intended(p) ==
    CASE alg \in {"parallel_foreach", "parallel_foreach_it"} ->
           [e |-> p, s |-> None, i |-> None]
      [] alg = "parallel_foreach_i" ->
           [e |-> p, s |-> None, i |-> p]
      [] alg = "parallel_foreach_i_only" ->
           [e |-> None, s |-> None, i |-> p]
      [] alg = "parallel_foreach_n" ->
           [e |-> None, s |-> None, i |-> first + p]
      [] alg = "parallel_foreach_pair_i" ->
           [e |-> p, s |-> p, i |-> p]

IntendedCalls == {Intended(p) : p \in 0 .. (dist - 1)}

\* The caller has made its last do_task.
Submissions == apc \in {"wait", "returned"}

\* No call is made twice or outside the input; the tasks submitted make each
\* intended call once (so they are pairwise disjoint); on return each
\* intended call has been made once.
ExactlyOnce ==
    /\ \A x \in BagToSet(calls) : x \in IntendedCalls /\ CopiesIn(x, calls) = 1
    /\ Submissions => SeqBag(Flatten(closures)) = SetToBag(IntendedCalls)
    /\ apc = "returned" => calls = SetToBag(IntendedCalls)

\* The call took the batched path with a remainder.
BatchedWithRemainder == part >= 2 /\ rem > 0 /\ dist = n * part + rem

\* C12: parallel_foreach and parallel_foreach_it over a random access range,
\* pool size >= 1: fun is called exactly once for every position of the
\* range and for nothing else, on the batched and the per-element path.
C12_ForeachExactlyOnce ==
    (alg \in {"parallel_foreach", "parallel_foreach_it"} /\ ra /\ n >= 1)
        => ExactlyOnce

\* C12 witness: parallel_foreach has returned from a batched call with a
\* remainder.
C12_Witness ==
    /\ alg = "parallel_foreach" /\ ra /\ n >= 2
    /\ apc = "returned" /\ BatchedWithRemainder

\* C13: parallel_foreach_n(pool, first, last, fun), pool size >= 1: fun is
\* called exactly once for each index of [first, last) and for no other.
C13_ForeachNExactlyOnce ==
    (alg = "parallel_foreach_n" /\ n >= 1) => ExactlyOnce

\* C14: parallel_foreach_i over a random access range, pool size >= 1: fun
\* is called exactly once with (element at position p, p) for every p.
C14_ForeachIExactlyOnce ==
    (alg = "parallel_foreach_i" /\ ra /\ n >= 1) => ExactlyOnce

\* C14 witness: parallel_foreach_i has returned from a batched call with a
\* remainder.
C14_Witness ==
    /\ alg = "parallel_foreach_i" /\ ra /\ n >= 2
    /\ apc = "returned" /\ BatchedWithRemainder

\* C15: parallel_foreach_pair_i, pool size >= 1: fun is called exactly once
\* with (first[p], second[p], p) for every p below the length of the first
\* range, the second range is never read at or beyond that length, and the
\* number of tasks depends on that length and the pool size only.
C15_PairExactlyOnce ==
    (alg = "parallel_foreach_pair_i" /\ n >= 1) =>
        /\ ExactlyOnce
        /\ \A x \in BagToSet(SeqBag(Flatten(closures))) : x.s < dist
        /\ (Submissions /\ ra) => Len(closures) = n + (dist % n)

\* C15 witness: parallel_foreach_pair_i has returned from a batched call
\* with a remainder.
C15_Witness ==
    /\ alg = "parallel_foreach_pair_i" /\ ra /\ n >= 2
    /\ apc = "returned" /\ BatchedWithRemainder

\* C16: every pool-based algorithm is synchronous: when it has returned the
\* queue is empty, no worker holds a task and every call of every task it
\* submitted has been made.
C16_Synchronous ==
    apc = "returned" =>
        /\ tasks = <<>>
        /\ \A t \in WorkerIds : task[t] = 0
        /\ calls = SeqBag(Flatten(closures))

\* C16 witness: an algorithm has returned after three tasks or more were run
\* by two workers or more.
C16_Witness == apc = "returned" /\ Len(closures) >= 3 /\ n >= 2

\* The batch bounds are computed: the body divides, the pool is not empty,
\* and part >= 2.
BatchedPath == Divides /\ n >= 1 /\ dist \div n >= 2

\* C17: on the batched path the algorithms submit exactly t batch tasks, the
\* i-th covering positions [i*part, (i+1)*part) of the input, then n mod t
\* single-element tasks for the tail: t + (n mod t) do_task calls.
C17_BatchLayout ==
    (BatchedPath /\ Submissions) =>
        LET q == dist \div n
        IN  /\ Len(closures) = n + (dist % n)
            /\ \A j \in 1 .. n :
                 /\ closures[j].kind = "batch"
                 /\ closures[j].inv =
                      [m \in 1 .. q |-> Intended((j - 1) * q + m - 1)]
            /\ \A j \in 1 .. (dist % n) :
                 /\ closures[n + j].kind = "single"
                 /\ closures[n + j].inv = <<Intended(n * q + j - 1)>>

\* C18: whenever part < 2 the by-value, by-index, by-iterator, index-only and
\* dual-range variants submit exactly one task per element and no batch task.
C18_SmallRangePerElement ==
    (/\ alg \in Algs \ {"parallel_foreach_n"}
     /\ n >= 1
     /\ dist \div n < 2
     /\ Submissions) =>
        /\ Len(closures) = dist
        /\ \A j \in 1 .. Len(closures) :
             /\ closures[j].kind = "single"
             /\ closures[j].inv = <<Intended(j - 1)>>

\* C19: for a range that is not random access, parallel_foreach, _i, _it,
\* _i_only and _pair_i submit exactly one task per element, whatever the
\* length and the pool size, the j-th task making the call for position j.
C19_NonRandomAccessPerElement ==
    (alg \in Algs \ {"parallel_foreach_n"} /\ ~ra) =>
        /\ Len(closures) <= dist
        /\ \A j \in 1 .. Len(closures) :
             /\ closures[j].kind = "single"
             /\ closures[j].inv = <<Intended(j - 1)>>
        /\ Submissions => Len(closures) = dist

\* C19 witness: every task of a range that a random access range of the
\* same length would have been batched for has been submitted.
C19_Witness ==
    /\ alg = "parallel_foreach_pair_i" /\ ~ra
    /\ n >= 1 /\ dist \div n >= 2
    /\ Submissions /\ Len(closures) = dist

\* C20: with a pool of size 0 no division n / t or n % t is evaluated.
C20_NoDivisionByZero == n = 0 => ~divz

-----------------------------------------------------------------------------
(* Properties of the pool: size, status, stop_flag, main_lock               *)

\* C21: a pool constructed with n = 0 accepts tasks and never runs them: a
\* do_task that finds stop_flag clear appends to the queue; no task is ever
\* popped or run; wait() returns at its first check when the queue is empty
\* and does not return while the queue is not empty, and the queue once not
\* empty stays so; the destructor has no thread to join and leaves the queue
\* as it is.
C21_EmptyPoolNeverRuns ==
    /\ [](n = 0 =>
            /\ popped = <<>> /\ started = <<>> /\ finished = <<>>
            /\ cpc[Owner] \in {"dtor_join", "destroyed"} => joined = threads)
    /\ [][n = 0 =>
            /\ \A c \in Clients :
                 /\ (cpc[c] = "dt_body" /\ ~stop_flag /\ cpc'[c] # cpc[c]) =>
                      (~raised'[c] /\ tasks' = Append(tasks, Len(tasks) + 1))
                 /\ (cpc[c] = "wt_check" /\ cpc'[c] # cpc[c]) =>
                      (cpc'[c] = "idle" <=> tasks = <<>>)
                 /\ tasks # <<>> => ~WaitReturns(c)
            /\ tasks # <<>> => tasks' = tasks \/ tasks' = Append(tasks, Len(tasks) + 1)
            /\ cpc[Owner] \in {"dtor_set", "dtor_notify", "dtor_join"} =>
                 tasks' = tasks]_vars

\* C21 witness: a pool of no thread was destroyed with MaxTasks tasks in its
\* queue.
C21_Witness ==
    /\ n = 0
    /\ cpc[Owner] = "destroyed"
    /\ Len(tasks) = MaxTasks
    /\ cpc[Other] = "idle"

\* C22: the pool size is fixed: once the constructor has returned, size()
\* is n, n worker threads exist and status has n entries, whatever do_task,
\* wait and task executions have happened since, until the pool is destroyed.
C22_SizeFixed ==
    cpc[Owner] # "ctor" =>
        /\ Size = n
        /\ Cardinality({t \in WorkerIds : wpc[t] # "none"}) = n
        /\ DOMAIN status = 0 .. (n - 1)

\* C22 witness: a pool of two threads is in use after MaxTasks tasks were
\* run and a wait() returned.
C22_Witness ==
    /\ PoolAlive
    /\ n = 2
    /\ Size = 2
    /\ quiet
    /\ Len(finished) = MaxTasks
    /\ ~stop_flag

-----------------------------------------------------------------------------
(* Properties of the free-function algorithms                               *)

\* C23: the free-function parallel_foreach, _i, _it, _n and _i_only launch
\* exactly one asynchronous unit per element, the j-th making the call for
\* position j and no unit running twice, and the call returns only after
\* every launched unit has completed.
C23_OneUnitPerElement ==
    /\ Len(futures) = Len(closures)
    /\ Len(futures) <= dist
    /\ \A j \in DOMAIN closures : closures[j].inv = <<Intended(j - 1)>>
    /\ \A x \in BagToSet(calls) : CopiesIn(x, calls) = 1
    /\ apc \in {"async_join", "returned"} => Len(futures) = dist
    /\ apc = "returned" =>
         /\ \A j \in DOMAIN futures : futures[j].done
         /\ calls = SetToBag(IntendedCalls)

\* C23 witness: parallel_foreach_i has returned from a call on three
\* elements or more.
C23_Witness == alg = "parallel_foreach_i" /\ apc = "returned" /\ dist >= 3

\* C24: maybe_parallel_foreach, _i, _pair_i and _n make the same multiset
\* of functor calls with thread_pool<true> (a pool of one worker or more) as
\* with thread_pool<false> (sequential), also for maybe_parallel_foreach_n
\* with first > 0.
C24_SameCallsInBothModes ==
    (alg \in MaybeAlgs /\ n >= 1 /\ apc = "returned") =>
        calls = SeqBag(SequentialCalls)

\* The worker has returned from a task and has not yet marked itself WAITING
\* at the top of its next iteration.
BetweenTasks(t) == wpc[t] \in {"top", "mark"} /\ Len(finished) >= 1

\* C25 (as stated): worker t has status WORKING if and only if it holds a
\* task removed from the queue and has not yet returned from executing it.
C25_WorkingIffHoldsTask ==
    \A t \in DOMAIN status : status[t] = "WORKING" <=> Executing(t)

\* C25 (amended): a worker that holds a task removed from the queue and has
\* not yet returned from executing it is WORKING; a WORKING worker holds
\* such a task or has returned from it and not yet marked itself WAITING at
\* the top of its next iteration; a worker is never WORKING while it tests
\* or is blocked on the work-available condition, nor after exiting.
C25_WorkingUntilNextIteration ==
    \A t \in DOMAIN status :
        /\ Executing(t) => status[t] = "WORKING"
        /\ status[t] = "WORKING" => (Executing(t) \/ BetweenTasks(t))
        /\ wpc[t] \in {"none", "pred", "cwait", "decide", "exited"} =>
             status[t] = "WAITING"

\* C25 witness: one worker runs a task while another, back from its task,
\* is still WORKING.
C25_Witness ==
    \E t, u \in DOMAIN status :
        /\ wpc[t] = "intask" /\ status[t] = "WORKING"
        /\ BetweenTasks(u) /\ status[u] = "WORKING"

\* C26: stop_flag is monotonic: it is false from construction until the
\* destructor sets it, only the destructor's critical section sets it, and
\* once true no step resets it.
C26_StopFlagMonotonic ==
    /\ [](stop_flag => cpc[Owner] \in {"dtor_notify", "dtor_join", "destroyed"})
    /\ [][(~stop_flag /\ stop_flag') => (cpc[Owner] = "dtor_set" /\ main_lock = {Owner})]_vars
    /\ [][stop_flag => stop_flag']_vars

\* C26 witness: the pool was destroyed after it ran a task and after a
\* do_task was rejected; the flag is still set.
C26_Witness ==
    /\ stop_flag
    /\ cpc[Owner] = "destroyed"
    /\ Len(finished) >= 1
    /\ raised[Other]

\* Thread th is at a place where its next step reads or writes the queue, a
\* status or stop_flag.
AtSharedAccess(th) ==
    IF th \in WorkerIds
      THEN wpc[th] \in {"mark", "pred", "decide"}
      ELSE cpc[th] \in {"dt_body", "wt_check", "wt_pred", "dtor_set"}

\* C27: once the constructor has returned, every read or write of the queue,
\* of a status and of stop_flag is made by a thread that holds main_lock; at
\* most one thread holds main_lock; a task runs with main_lock released by
\* its worker.
C27_LockDiscipline ==
    /\ [](cpc[Owner] # "ctor" =>
            /\ Cardinality(main_lock) <= 1
            /\ \A th \in WorkerIds \cup Clients :
                 AtSharedAccess(th) => main_lock = {th}
            /\ \A t \in WorkerIds : Executing(t) => t \notin main_lock)
    /\ [][(cpc[Owner] # "ctor" /\
           (tasks' # tasks \/ status' # status \/ stop_flag' # stop_flag)) =>
            \E th \in WorkerIds \cup Clients :
                main_lock = {th} /\ AtSharedAccess(th)]_vars

\* C27 witness: a client is inside the critical section of do_task while a
\* worker runs a task and another worker waits for the lock.
C27_Witness ==
    /\ \E c \in Clients : cpc[c] = "dt_body" /\ main_lock = {c}
    /\ \E t, u \in WorkerIds : wpc[t] = "intask" /\ wpc[u] = "top"

\* The step is a step of client c inside do_task, wait() or the destructor.
ClientStep(c) == cpc'[c] # cpc[c] \/ (c = Owner /\ joined' # joined)

\* C28: status[t] is changed only by a step of worker t, made under
\* main_lock; the steps of do_task, of wait(), of the destructor and of the
\* other workers leave it unchanged; do_task and wait() never remove a task
\* from the queue (only a worker's pop does).
C28_StatusOwnedByWorker ==
    /\ [][\A t \in DOMAIN status :
            status'[t] # status[t] =>
                /\ wpc[t] \in {"mark", "decide"}
                /\ wpc'[t] # wpc[t]
                /\ main_lock = {t}]_vars
    /\ [][\A c \in Clients :
            ClientStep(c) =>
                /\ status' = status
                /\ Len(tasks') >= Len(tasks)
                /\ popped' = popped]_vars
    /\ [][Len(tasks') < Len(tasks) =>
            \E t \in WorkerIds : wpc[t] = "decide" /\ wpc'[t] = "call"]_vars

\* C28 witness: in a pool of two workers one worker is WORKING and the
\* other WAITING while a client is inside wait() and the other inside
\* do_task.
C28_Witness ==
    /\ n >= 2
    /\ \E t, u \in DOMAIN status : status[t] = "WORKING" /\ status[u] = "WAITING"
    /\ \E c, d \in Clients : InWait(c) /\ cpc[d] \in {"dt_body", "dt_notify"}

\* C29: a worker leaves its loop only in a state where stop_flag is true and
\* the queue is empty: none exits before the destructor has set stop_flag,
\* none exits while a task is in the queue.
C29_ExitOnlyWhenStoppedAndEmpty ==
    /\ [][\A t \in WorkerIds :
            (wpc'[t] = "exited" /\ wpc[t] # "exited") =>
                /\ stop_flag
                /\ tasks = <<>>
                /\ cpc[Owner] \in {"dtor_notify", "dtor_join"}]_vars
    /\ []((\E t \in WorkerIds : wpc[t] = "exited") => (stop_flag /\ tasks = <<>>))

\* C29 witness: a worker has exited while another still runs a task that was
\* in the queue when stop_flag was set.
C29_Witness ==
    \E t, u \in WorkerIds :
        /\ wpc[t] = "exited"
        /\ wpc[u] = "intask"
        /\ task[u] \in queuedAtStop

\* C30: no wakeup is lost on the work-available condition: in a pool with
\* one worker or more, where every task terminates and scheduling is fair,
\* every task appended by do_task is eventually taken from the queue and run
\* to its end by a worker, whether or not any thread calls wait(), and also
\* when the pool is destroyed meanwhile.
C30_NoLostWakeup ==
    \A id \in 1 .. MaxTasks :
        (n >= 1 /\ Submitted >= id) ~> (Count(popped, id) = 1 /\ Count(finished, id) = 1)

\* C30 witness: MaxTasks tasks were run by a pool of two workers that is
\* still in use, no wait() having returned since the last do_task, and both
\* workers are blocked on the condition again.
C30_Witness ==
    /\ n >= 2
    /\ Len(finished) = MaxTasks
    /\ ~quiet
    /\ ~stop_flag
    /\ \A c \in Clients : cpc[c] = "idle"
    /\ \A t \in 0 .. (n - 1) : t \in condition

-----------------------------------------------------------------------------
(* Properties of wait(): blocking                                           *)

\* C31: wait() does not busy-wait: a caller that has found the pool not
\* drained (queue not empty, or queue empty with a worker still WORKING)
\* blocks on wait_condition at its wait_condition.wait; it does not come back
\* to the top of its loop without having blocked.
C31_WaitBlocksWhenNotDrained ==
    [][\A c \in Clients :
          (cpc[c] = "wt_pred" /\ ~Drained /\ cpc'[c] # cpc[c]) =>
              (cpc'[c] = "wt_cwait" /\ c \in wait_condition')]_vars

\* The index unit j is given.
UnitIndex(j) == closures[j].inv[1].i

\* C32: the free-function parallel_foreach_i and parallel_foreach_i_only
\* give the k-th unit launched (k from 0) the index k; the indices given are
\* exactly 0 .. n-1, each once, fun has been called once with each when the
\* call returns, and parallel_foreach_i pairs each index with the element at
\* that position.
C32_AsyncIndexIsPosition ==
    (alg \in {"parallel_foreach_i", "parallel_foreach_i_only"}
       /\ apc \in {"async_loop", "async_join", "returned"} /\ futures # <<>>) =>
        /\ \A j \in DOMAIN closures :
             /\ UnitIndex(j) = j - 1
             /\ alg = "parallel_foreach_i" => closures[j].inv[1].e = UnitIndex(j)
        /\ apc \in {"async_join", "returned"} =>
             {UnitIndex(j) : j \in DOMAIN closures} = 0 .. (dist - 1)
        /\ apc = "returned" =>
             \A i \in 0 .. (dist - 1) :
                 Cardinality({x \in BagToSet(calls) : x.i = i}) = 1
                   /\ \A x \in BagToSet(calls) : x.i = i => CopiesIn(x, calls) = 1

\* C32 witness: parallel_foreach_i_only has returned from a call on three
\* elements or more.
C32_Witness == alg = "parallel_foreach_i_only" /\ apc = "returned" /\ dist >= 3

-----------------------------------------------------------------------------
(* Tasks that use the pool                                                  *)
(*                                                                          *)
(* A task is any callable: it may call do_task and wait() on the pool that  *)
(* runs it.  The calls are the ones of the clients, made by the worker      *)
(* thread from inside task().  An exception that leaves task() leaves the   *)
(* thread function: std::terminate ends the program.                        *)

nestFrame == <<n, threads, status, stop_flag, joined, task, cpc, raised,
               popped, started, finished, queuedAtStop>>

\* std::terminate was called: the program has ended, no thread runs any more.
Terminated == \A t \in WorkerIds : wpc[t] = "terminated"

\* The positions of a worker inside wait() called by its task.
TaskInWait(t) == wpc[t] \in {"tk_wt_top", "tk_wt_check", "tk_wt_pred", "tk_wt_cwait"}

\* The task of worker t calls do_task: with_lock(main_lock, ...).  Tasks
\* enqueue until MaxTasks + MaxNested tasks were enqueued in all.
TaskDoTaskLock(t) ==
    /\ wpc[t] = "intask"
    /\ Submitted < MaxTasks + MaxNested \/ stop_flag
    /\ WithLock(t)
    /\ wpc' = [wpc EXCEPT ![t] = "tk_body"]
    /\ quiet' = FALSE
    /\ UNCHANGED <<tasks, condition, wait_condition, child>>
    /\ UNCHANGED nestFrame
    /\ UNCHANGED algVars

\* The lambda of do_task when the pool is not stopping: the task is enqueued.
TaskDoTaskBody(t) ==
    /\ wpc[t] = "tk_body"
    /\ ~DoTaskRejects
    /\ tasks' = EmplaceBack(tasks, Submitted + 1)
    /\ child' = child \cup {<<task[t], Submitted + 1>>}
    /\ wpc' = [wpc EXCEPT ![t] = "tk_notify"]
    /\ main_lock' = {}
    /\ UNCHANGED <<condition, wait_condition, quiet>>
    /\ UNCHANGED nestFrame
    /\ UNCHANGED algVars

\* The lambda of do_task when stop_flag is set: the exception leaves task()
\* and the thread function, which ends the program with every thread in it.
TaskDoTaskThrow(t) ==
    /\ wpc[t] = "tk_body"
    /\ DoTaskRejects
    /\ wpc' = [w \in WorkerIds |-> "terminated"]
    /\ cpc' = [c \in Clients |-> "terminated"]
    /\ condition' = {}
    /\ wait_condition' = {}
    /\ UNCHANGED <<tasks, main_lock, quiet, child>>
    /\ UNCHANGED <<n, threads, status, stop_flag, joined, task, raised,
                   popped, started, finished, queuedAtStop>>
    /\ UNCHANGED algVars

\* condition.notify_one(); do_task returns into the task.
TaskDoTaskNotify(t) ==
    /\ wpc[t] = "tk_notify"
    /\ condition' \in NotifyWorker(condition)
    /\ wpc' = [wpc EXCEPT ![t] = "intask"]
    /\ UNCHANGED <<tasks, main_lock, wait_condition, quiet, child>>
    /\ UNCHANGED nestFrame
    /\ UNCHANGED algVars

\* The task of worker t calls wait().
TaskWaitCall(t) ==
    /\ wpc[t] = "intask"
    /\ wpc' = [wpc EXCEPT ![t] = "tk_wt_top"]
    /\ UNCHANGED <<tasks, main_lock, condition, wait_condition, quiet, child>>
    /\ UNCHANGED nestFrame
    /\ UNCHANGED algVars

\* while (true) { std::unique_lock<std::mutex> ulock(main_lock);
TaskWaitLock(t) ==
    /\ wpc[t] = "tk_wt_top"
    /\ main_lock = {}
    /\ main_lock' = {t}
    /\ wpc' = [wpc EXCEPT ![t] = "tk_wt_check"]
    /\ UNCHANGED <<tasks, condition, wait_condition, quiet, child>>
    /\ UNCHANGED nestFrame
    /\ UNCHANGED algVars

\* if (tasks.empty() && no status is WORKING) return;
TaskWaitCheck(t) ==
    /\ wpc[t] = "tk_wt_check"
    /\ IF Drained
         THEN /\ wpc' = [wpc EXCEPT ![t] = "intask"]
              /\ main_lock' = {}
              /\ quiet' = TRUE
         ELSE /\ wpc' = [wpc EXCEPT ![t] = "tk_wt_pred"]
              /\ UNCHANGED <<main_lock, quiet>>
    /\ UNCHANGED <<tasks, condition, wait_condition, child>>
    /\ UNCHANGED nestFrame
    /\ UNCHANGED algVars

\* wait_condition.wait(ulock, pred)
TaskWaitPred(t) ==
    /\ wpc[t] = "tk_wt_pred"
    /\ IF WaitPredicate
         THEN /\ wpc' = [wpc EXCEPT ![t] = "tk_wt_top"]
              /\ wait_condition' = wait_condition
         ELSE /\ wpc' = [wpc EXCEPT ![t] = "tk_wt_cwait"]
              /\ wait_condition' = wait_condition \cup {t}
    /\ main_lock' = {}
    /\ UNCHANGED <<tasks, condition, quiet, child>>
    /\ UNCHANGED nestFrame
    /\ UNCHANGED algVars

\* wait_condition.wait: the thread was woken and takes the lock again.
TaskWaitWake(t) ==
    /\ wpc[t] = "tk_wt_cwait"
    /\ t \notin wait_condition
    /\ main_lock = {}
    /\ main_lock' = {t}
    /\ wpc' = [wpc EXCEPT ![t] = "tk_wt_pred"]
    /\ UNCHANGED <<tasks, condition, wait_condition, quiet, child>>
    /\ UNCHANGED nestFrame
    /\ UNCHANGED algVars

\* A spurious wakeup of a worker blocked in wait().
SpuriousTaskWaiterWakeup(t) ==
    /\ t \in WorkerIds
    /\ t \in wait_condition
    /\ wait_condition' = wait_condition \ {t}
    /\ UNCHANGED <<tasks, main_lock, condition, wpc, quiet, child>>
    /\ UNCHANGED nestFrame
    /\ UNCHANGED algVars

\* The steps of the task of worker t on the pool.
TaskCalls(t) ==
    \/ TaskDoTaskLock(t)
    \/ TaskDoTaskBody(t)
    \/ TaskDoTaskThrow(t)
    \/ TaskDoTaskNotify(t)
    \/ TaskWaitCall(t)
    \/ TaskWaitLock(t)
    \/ TaskWaitCheck(t)
    \/ TaskWaitPred(t)
    \/ TaskWaitWake(t)
    \/ SpuriousTaskWaiterWakeup(t)

NestedNext ==
    \/ Next
    \/ \E t \in WorkerIds : TaskCalls(t)

NestedSpec == Init /\ [][NestedNext]_vars


\* The positions at which a worker holds a task, the calls its task makes on
\* the pool included.
HoldsTask(t) ==
    \/ Executing(t)
    \/ wpc[t] \in {"tk_body", "tk_notify"}
    \/ TaskInWait(t)

\* The tasks enqueued, directly or through other tasks, by the tasks.
Descendants == {p[2] : p \in child}

\* C33: wait() covers the tasks submitted by tasks.  Whenever a wait() called
\* by an outside thread returns, every task that a running task has enqueued,
\* and every task enqueued by such a task in turn, has run to completion, no
\* worker holds a task and the queue is empty.
C33_WaitCoversChildTasks ==
    [][\A c \in Clients :
          WaitReturns(c) =>
              /\ \A id \in Descendants : Count(finished, id) = 1
              /\ tasks = <<>>
              /\ \A t \in WorkerIds : ~HoldsTask(t)]_vars

\* C33 witness: a wait() has returned after a task enqueued by a task that
\* was itself enqueued by a task has completed, the pool not stopping.
C33_Witness ==
    /\ quiet
    /\ ~stop_flag
    /\ \E p \in child : \E q \in child :
          /\ q[1] = p[2]
          /\ Count(finished, q[2]) = 1


\* C34: a wait() called from inside a task of the same pool never returns.
\* For the whole call the status of the calling worker is WORKING, so the
\* drained condition does not hold and no step of the call goes back into
\* the task.
C34_NestedWaitNeverReturns ==
    [][\A t \in WorkerIds :
          TaskInWait(t) =>
              /\ status[t] = "WORKING"
              /\ ~Drained
              /\ wpc'[t] # "intask"]_vars

\* C34 witness: a worker of a pool of two makes the drained check of a wait()
\* called by its task when the queue is empty, every other task has completed
\* and the other worker is WAITING: only the caller itself is still WORKING.
C34_Witness ==
    /\ n >= 2
    /\ ~stop_flag
    /\ \E t \in WorkerIds :
          /\ wpc[t] = "tk_wt_check"
          /\ tasks = <<>>
          /\ Len(finished) >= 1
          /\ Len(finished) + 1 = Submitted
          /\ \A u \in DOMAIN status : u # t => status[u] = "WAITING"


\* The destructor of the pool has been entered.
Destroying ==
    cpc[Owner] \in {"dtor_set", "dtor_notify", "dtor_join", "destroyed"}

\* The barrier half of C35: a wait() returns only when the queue is empty and
\* no worker holds a task, whoever enqueued the tasks.
C35_BarrierIsPoolGlobal ==
    [][\A c \in Clients :
          WaitReturns(c) =>
              /\ tasks = <<>>
              /\ \A t \in WorkerIds : ~Executing(t)
              /\ \A t \in DOMAIN status : status[t] = "WAITING"]_vars

\* The progress half of C35: with at least one worker, each of the threads
\* inside wait() leaves it (as long as the pool is not being destroyed under
\* it).
C35_BothCallsReturn ==
    \A c \in Clients : (n >= 1 /\ InWait(c)) ~> (~InWait(c) \/ Destroying)

\* C35: the barrier is pool-global.  When two threads use the same pool
\* concurrently, the wait() that ends the call of either does not return while
\* a task of the other is queued or executing, and with at least one worker
\* both calls eventually return.
C35_GlobalBarrierBothReturn == C35_BarrierIsPoolGlobal /\ C35_BothCallsReturn


\* The tasks that have run, in the order in which they left the queue: with
\* one worker a task is taken only after the one before it has returned.
RanInOrder == SelectSeq(popped, LAMBDA id : \A t \in WorkerIds : task[t] # id)

\* The calls of fun made so far by a pool of one worker, in order.
CallOrder == Flatten([j \in 1 .. Len(RanInOrder) |-> closures[RanInOrder[j]]])

\* s is the beginning of r.
IsPrefix(s, r) == Len(s) <= Len(r) /\ \A j \in 1 .. Len(s) : s[j] = r[j]

\* C36: with a pool of exactly one worker, parallel_foreach_i over a
\* random-access range calls fun(element p, p) for p = 0, 1, ..., n-1 in
\* this order, as the sequential foreach_i does: at every moment the calls
\* made are a beginning of the sequential ones, and at return they are all
\* made.
C36_SingleWorkerSequentialOrder ==
    (n = 1 /\ alg = "parallel_foreach_i" /\ ra) =>
        /\ IsPrefix(CallOrder, SequentialCalls)
        /\ apc = "returned" => CallOrder = SequentialCalls

\* C36 witness: the call over the longest range has returned from a pool of
\* one worker, its calls made by one batch.
C36_Witness ==
    /\ n = 1
    /\ alg = "parallel_foreach_i"
    /\ ra
    /\ dist = MaxLen
    /\ apc = "returned"
    /\ Len(closures) = 1
    /\ closures[1].kind = "batch"
    /\ Len(CallOrder) = dist


\* C37: the constructor holds main_lock for the whole of thread creation.
\* Until it returns no worker has gone past the acquisition of main_lock at
\* the top of its loop, so none has written its status, notified the drain
\* waiter or inspected the queue; and when it returns all n threads exist,
\* every status entry is WAITING and the queue is empty.
C37_CtorHoldsLockWhileSpawning ==
    [][cpc[Owner] = "ctor" =>
          /\ main_lock = {Owner}
          /\ \A t \in WorkerIds : wpc[t] \in {"none", "top"}
          /\ condition = {}
          /\ wait_condition = {}
          /\ cpc'[Owner] # "ctor" =>
                /\ threads' = n
                /\ \A t \in DOMAIN status' : status'[t] = "WAITING"
                /\ tasks' = <<>>]_vars

\* C37 witness: the two threads of a pool of two have been created and the
\* constructor has not returned yet: both are at the top of their loop.
C37_Witness ==
    /\ cpc[Owner] = "ctor"
    /\ n = 2
    /\ threads = 2
    /\ \A t \in 0 .. 1 : wpc[t] = "top"

=============================================================================
